---- MODULE Spec2Model ----
(***************************************************************************)
(* Model of src/injected.js: the request capture-and-replay engine         *)
(* (window.BrowserUtils), the fetch Proxy installed by monitorGQL, the     *)
(* XMLHttpRequest.prototype overrides, and the paginated collector.        *)
(*                                                                         *)
(* Encoding of JavaScript values                                           *)
(*   string           a sequence of text segments; s.includes(f) is        *)
(*                     contiguous-subsequence containment                   *)
(*   number           [nan |-> BOOLEAN, v |-> Int]                          *)
(*   object           a record holding exactly the keys the object has     *)
(*   null, undefined  the records Null and Undefined                       *)
(*   URL string       [abs, path, query]: abs says whether the text starts *)
(*                     with a scheme and origin (so that new URL(text)      *)
(*                     parses), query is the list of name=value pairs       *)
(***************************************************************************)
EXTENDS Integers, Sequences, FiniteSets, TLC

VARIABLES
  config,        \* BrowserUtils.config
  firstCapture,  \* BrowserUtils.firstCapture
  windowFetch,   \* what window.fetch is bound to: "native", "proxy" (a Proxy of
                 \* nativeFetch) or "nested" (a Proxy of a Proxy)
  xhr,           \* the _xhrMethod/_xhrUrl/_xhrHeaders fields of the live XHR instance
  aliased,       \* firstCapture.config.headers is the very object xhr._xhrHeaders
  lastCall,      \* the most recent call through an interception point, and what it did
  run            \* the activations of collectAndDownload

vars == <<config, firstCapture, windowFetch, xhr, aliased, lastCall, run>>

----------------------------------------------------------------------------
(* Bounds of the model.                                                    *)

MaxRuns == 2      \* activations of collectAndDownload that may overlap
MaxPages == 3     \* largest Count entered in the panel

----------------------------------------------------------------------------
(* JavaScript values.                                                      *)

Null == [jstype |-> "null"]
Undefined == [jstype |-> "undefined"]
EmptyObject == [jstype |-> "object"]

Has(o, k) == k \in DOMAIN o

Num(n) == [nan |-> FALSE, v |-> n]
NaN == [nan |-> TRUE, v |-> 0]
NumTruthy(n) == ~n.nan /\ n.v # 0
JsAdd(a, b) == IF a.nan \/ b.nan THEN NaN ELSE Num(a.v + b.v)
JsMul(a, b) == IF a.nan \/ b.nan THEN NaN ELSE Num(a.v * b.v)
JsLess(a, b) == ~a.nan /\ ~b.nan /\ a.v < b.v
NumToString(n) == IF n.nan THEN "NaN" ELSE ToString(n.v)

\* s.includes(f): f occurs in s as a contiguous run; the empty f occurs in every s.
Includes(s, f) ==
  \E k \in 0..(Len(s) - Len(f)) : \A j \in 1..Len(f) : s[k + j] = f[j]

\* String.prototype.trim on a segment sequence: leading and trailing blanks go.
RECURSIVE TrimLeft(_)
TrimLeft(s) == IF s # <<>> /\ Head(s) = " " THEN TrimLeft(Tail(s)) ELSE s
RECURSIVE TrimRight(_)
TrimRight(s) ==
  IF s # <<>> /\ s[Len(s)] = " " THEN TrimRight(SubSeq(s, 1, Len(s) - 1)) ELSE s
Trim(s) == TrimRight(TrimLeft(s))

\* parseInt(text, 10) on the texts a number input can hold.
ParseInt(text) ==
  CASE text = "0" -> Num(0)
    [] text = "1" -> Num(1)
    [] text = "2" -> Num(2)
    [] text = "3" -> Num(3)
    [] text = "4" -> Num(4)
    [] text = "10" -> Num(10)
    [] text = "20" -> Num(20)
    [] text = "1.5" -> Num(1)
    [] text = "-5" -> Num(0 - 5)
    [] text = "-1" -> Num(0 - 1)
    [] OTHER -> NaN

----------------------------------------------------------------------------
(* URLs.                                                                   *)

Origin == "https://"

RECURSIVE QueryText(_, _)
QueryText(q, first) ==
  IF q = <<>> THEN <<>>
  ELSE <<IF first THEN "?" ELSE "&">> \o q[1][1] \o <<"=">> \o q[1][2]
       \o QueryText(Tail(q), FALSE)

\* The text of a URL string, for includes().
UrlText(u) == (IF u.abs THEN <<Origin>> ELSE <<>>) \o u.path \o QueryText(u.query, TRUE)

\* new URL(text) with no base: throws unless the text is absolute.
UrlParses(u) == u.abs

\* URLSearchParams.set(name, value): the first pair named name gets the value and
\* the other pairs of that name are removed; with none, the pair is appended.
RECURSIVE DropNamed(_, _)
DropNamed(q, name) ==
  IF q = <<>> THEN <<>>
  ELSE IF q[1][1] = name THEN DropNamed(Tail(q), name)
       ELSE <<q[1]>> \o DropNamed(Tail(q), name)
RECURSIVE SearchParamsSet(_, _, _)
SearchParamsSet(q, name, value) ==
  IF q = <<>> THEN <<<<name, value>>>>
  ELSE IF q[1][1] = name THEN <<<<name, value>>>> \o DropNamed(Tail(q), name)
       ELSE <<q[1]>> \o SearchParamsSet(Tail(q), name, value)

----------------------------------------------------------------------------
(* Defaults and construction.                                              *)

DefaultFilterText == "opendata.rdw.nl/api/catalog/v1"

defaultPageSize == 20

DefaultPathText == <<"data", ".", "recipeSearchV2", ".", "result">>

defaultConfig ==
  [filter |-> <<DefaultFilterText>>,
   paramName |-> <<"page">>,
   pageSize |-> Num(defaultPageSize),
   jsonPath |-> DefaultPathText]

----------------------------------------------------------------------------
(* Request normalisation shared by the two interception points.            *)

PlainHeaders(m) == [kind |-> "plain", map |-> m]
HeadersInstance(m) == [kind |-> "Headers", map |-> m]
NoEntries == [n \in {} |-> ""]
EmptyHeaders == PlainHeaders(NoEntries)

JsonBody(doc, pretty) == [kind |-> "json", doc |-> doc, pretty |-> pretty]
TextBody(text) == [kind |-> "text", text |-> text]

\* A body is falsy when it is missing or the empty string.
BodyTruthy(b) == ~(b.kind = "text" /\ b.text = "")

\* try { JSON.stringify(JSON.parse(body), null, 2) } catch { body }
NormalizeBody(b) == IF b.kind = "json" THEN JsonBody(b.doc, TRUE) ELSE b

\* init[k] || dflt for a string-valued key
StringOr(o, k, dflt) == IF Has(o, k) /\ o[k] # "" THEN o[k] ELSE dflt

WithBody(c, b) == [k \in DOMAIN c \cup {"body"} |-> IF k = "body" THEN b ELSE c[k]]

\* cleanConfig of the fetch path, lines 57-70
FetchCleanConfig(init) ==
  LET base == [headers |-> IF Has(init, "headers") THEN init.headers ELSE EmptyHeaders,
               method |-> StringOr(init, "method", "GET"),
               mode |-> StringOr(init, "mode", "cors"),
               credentials |-> StringOr(init, "credentials", "same-origin")]
  IN IF Has(init, "body") /\ BodyTruthy(init.body)
     THEN WithBody(base, NormalizeBody(init.body))
     ELSE base

\* cleanConfig of the XHR path, lines 222-233
XhrCleanConfig(x, sendArgs) ==
  LET base == [headers |-> IF Has(x, "_xhrHeaders") THEN x._xhrHeaders ELSE EmptyHeaders,
               method |-> StringOr(x, "_xhrMethod", "GET")]
  IN IF Len(sendArgs) >= 1 /\ Has(sendArgs[1], "kind") /\ BodyTruthy(sendArgs[1])
     THEN WithBody(base, NormalizeBody(sendArgs[1]))
     ELSE base

\* Mutant: the new Template is laid over the stored one, whose other keys remain.
StoreTemplateMerged(slot, template) ==
  IF slot = Null THEN template
  ELSE [url |-> template.url,
        config |-> [k \in DOMAIN slot.config \cup DOMAIN template.config |->
                      IF k \in DOMAIN template.config
                      THEN template.config[k] ELSE slot.config[k]]]

\* firstCapture = { url, config: cleanConfig }, lines 71 and 234: a new object takes
\* the place of whatever the slot held.
StoreTemplate(slot, template) == template

----------------------------------------------------------------------------
(* The fetch Proxy of monitorGQL.                                          *)

\* The try block of the apply trap, lines 51-85: the slot it leaves, and whether it
\* threw (into the catch of line 86).
FetchCapture(args, cfg, slot) ==
  LET resource == args[1]
      init == IF Len(args) >= 2 /\ args[2] # Undefined THEN args[2] ELSE EmptyObject
      same == [threw |-> FALSE, captured |-> FALSE, slot |-> slot]
      thrown == [threw |-> TRUE, captured |-> FALSE, slot |-> slot]
  IN IF resource.kind = "null" THEN thrown                 \* resource.url of null
     ELSE IF cfg.filter = <<>> THEN same                   \* falsy filter: && stops
     ELSE IF resource.kind = "object" THEN thrown          \* undefined.includes
     ELSE IF ~Includes(UrlText(resource.url), cfg.filter) THEN same
     ELSE IF init = Null THEN thrown                       \* null.headers
     ELSE [threw |-> FALSE, captured |-> TRUE,
           slot |-> StoreTemplate(slot, [url |-> resource.url,
                                         config |-> FetchCleanConfig(init)])]

\* Mutant: Reflect.apply moved inside the try block, after the capture code.
FetchProxyApplyInsideTry(args, cfg, slot, promise) ==
  LET c == FetchCapture(args, cfg, slot)
  IN [slot |-> c.slot, threw |-> c.threw, captured |-> c.captured,
      writes |-> IF c.captured THEN 1 ELSE 0,
      native |-> IF c.threw THEN <<>> ELSE <<args>>,
      returned |-> IF c.threw THEN Undefined ELSE promise]

\* The apply trap: the capture attempt, then Reflect.apply(target, thisArg, args)
\* whose promise is returned.
FetchProxyApply(args, cfg, slot, promise) ==
  LET c == FetchCapture(args, cfg, slot)
  IN [slot |-> c.slot, threw |-> c.threw, captured |-> c.captured,
      writes |-> IF c.captured THEN 1 ELSE 0,
      native |-> <<args>>, returned |-> promise]

\* A call of window.fetch, whatever it is bound to.
WindowFetch(args, wf, cfg, slot, promise) ==
  IF wf = "proxy"
  THEN FetchProxyApply(args, cfg, slot, promise)
  ELSE IF wf = "nested"
  THEN \* the outer trap, then its target's trap, then the native function
       LET outer == FetchProxyApply(args, cfg, slot, promise)
           inner == FetchProxyApply(args, cfg, outer.slot, promise)
       IN [inner EXCEPT !.threw = outer.threw \/ inner.threw,
                        !.captured = outer.captured \/ inner.captured,
                        !.writes = outer.writes + inner.writes]
  ELSE [slot |-> slot, threw |-> FALSE, captured |-> FALSE, writes |-> 0,
        native |-> <<args>>, returned |-> promise]

----------------------------------------------------------------------------
(* The XMLHttpRequest.prototype overrides.                                 *)

\* Mutant: the test of line 221 without `filter &&`, so that the empty filter
\* matches every URL.
XhrCaptureEmptyFilterMatches(x, sendArgs, cfg, slot) ==
  LET same == [threw |-> FALSE, captured |-> FALSE, slot |-> slot]
  IN IF ~Has(x, "_xhrUrl") \/ x._xhrUrl.kind = "null" THEN same
     ELSE IF x._xhrUrl.kind # "string"
          THEN [threw |-> TRUE, captured |-> FALSE, slot |-> slot]
     ELSE IF ~Includes(UrlText(x._xhrUrl.url), cfg.filter) THEN same
     ELSE [threw |-> FALSE, captured |-> TRUE,
           slot |-> StoreTemplate(slot, [url |-> x._xhrUrl.url,
                                         config |-> XhrCleanConfig(x, sendArgs)])]

\* The body of the send override before line 248: the slot it leaves, whether it
\* stored a Template, and whether it threw (nothing catches it).
XhrCapture(x, sendArgs, cfg, slot) ==
  LET same == [threw |-> FALSE, captured |-> FALSE, slot |-> slot]
  IN IF ~Has(x, "_xhrUrl") \/ x._xhrUrl.kind = "null" THEN same   \* falsy _xhrUrl
     ELSE IF cfg.filter = <<>> THEN same                           \* falsy filter
     ELSE IF x._xhrUrl.kind # "string"                            \* no includes method
          THEN [threw |-> TRUE, captured |-> FALSE, slot |-> slot]
     ELSE IF ~Includes(UrlText(x._xhrUrl.url), cfg.filter) THEN same
     ELSE [threw |-> FALSE, captured |-> TRUE,
           slot |-> StoreTemplate(slot, [url |-> x._xhrUrl.url,
                                         config |-> XhrCleanConfig(x, sendArgs)])]

\* The send override: an exception of the capture code leaves before line 248.
XhrSendOverride(x, sendArgs, cfg, slot) ==
  LET c == XhrCapture(x, sendArgs, cfg, slot)
  IN [slot |-> c.slot, threw |-> c.threw, captured |-> c.captured,
      native |-> IF c.threw THEN <<>> ELSE <<sendArgs>>]

\* The open override, lines 201-206.
XhrOpenOverride(x, openArgs) ==
  [xhr |-> [jstype |-> "object", _xhrMethod |-> openArgs[1], _xhrUrl |-> openArgs[2],
            _xhrHeaders |-> EmptyHeaders],
   threw |-> FALSE, captured |-> FALSE, native |-> <<openArgs>>]

\* map[header] = value
SetEntry(h, header, value) ==
  [h EXCEPT !.map = [n \in DOMAIN h.map \cup {header} |->
                       IF n = header THEN value ELSE h.map[n]]]

\* The setRequestHeader override, lines 209-213.
XhrSetRequestHeaderOverride(x, hdrArgs) ==
  LET had == IF Has(x, "_xhrHeaders") THEN x._xhrHeaders ELSE EmptyHeaders
      now == SetEntry(had, hdrArgs[1], hdrArgs[2])
  IN [xhr |-> [k \in DOMAIN x \cup {"_xhrHeaders"} |->
                 IF k = "_xhrHeaders" THEN now ELSE x[k]],
      threw |-> FALSE, captured |-> FALSE, native |-> <<hdrArgs>>]

----------------------------------------------------------------------------
(* JSON values and the path extractor.                                     *)

JObject(f) == [t |-> "object", fields |-> f]
JString(str) == [t |-> "string", s |-> str]
JNumber(n) == [t |-> "number", n |-> n]
JBool(b) == [t |-> "boolean", b |-> b]
JNull == [t |-> "null"]
JFunction(name) == [t |-> "function", name |-> name]

\* Some of the keys every object inherits from Object.prototype.
ObjectPrototypeKeys == {"constructor", "toString", "hasOwnProperty"}

JsTruthy(v) ==
  CASE v.t = "null" -> FALSE
    [] v.t = "string" -> v.s # ""
    [] v.t = "number" -> v.n # 0
    [] v.t = "boolean" -> v.b
    [] OTHER -> TRUE

\* path.split('.'): the keys between the dots; the empty text gives one empty key.
RECURSIVE SplitFrom(_, _)
SplitFrom(s, cur) ==
  IF s = <<>> THEN <<cur>>
  ELSE IF Head(s) = "." THEN <<cur>> \o SplitFrom(Tail(s), "")
       ELSE SplitFrom(Tail(s), Head(s))
SplitDots(s) == SplitFrom(s, "")

Found(v) == [kind |-> "value", value |-> v]
NotFound == [kind |-> "undefined"]
Thrown == [kind |-> "throw"]

\* The loop of getValueByPath, lines 9-16: `value && p in value` is false for a
\* falsy value, a TypeError for a truthy primitive, and looks through the
\* prototype chain for an object.
RECURSIVE WalkPath(_, _)
WalkPath(value, parts) ==
  IF parts = <<>> THEN Found(value)
  ELSE IF ~JsTruthy(value) THEN NotFound
  ELSE IF value.t \in {"string", "number", "boolean"} THEN Thrown
  ELSE IF value.t = "object" /\ Head(parts) \in DOMAIN value.fields
       THEN WalkPath(value.fields[Head(parts)], Tail(parts))
  ELSE IF Head(parts) \in ObjectPrototypeKeys
       THEN WalkPath(JFunction(Head(parts)), Tail(parts))
  ELSE NotFound

getValueByPath(obj, path) == WalkPath(obj, SplitDots(path))

----------------------------------------------------------------------------
(* BrowserUtils.                                                           *)

\* parseInt(value, 10) || defaultConfig.pageSize
PageSizeFromPanel(text) ==
  LET n == ParseInt(text) IN IF NumTruthy(n) THEN n ELSE Num(defaultPageSize)

\* JSON.parse(JSON.stringify(config)): strings and plain objects of strings come
\* back equal; a Headers instance has no enumerable own properties and comes back {}.
JsonClone(c) ==
  [k \in DOMAIN c |->
     IF k = "headers" /\ c[k].kind = "Headers" THEN EmptyHeaders ELSE c[k]]

\* Lines 122-132 of executeRequest: the request built from the stored Template.
BuildRequest(newValue, slot, cfg) ==
  [url |-> IF UrlParses(slot.url)
           THEN [slot.url EXCEPT
                   !.query = SearchParamsSet(@, cfg.paramName, <<NumToString(newValue)>>)]
           ELSE slot.url,
   init |-> JsonClone(slot.config)]

StringResource(u) == [kind |-> "string", url |-> u]

NativePromise(args) == [promiseOf |-> args]

\* lastCall also keeps, for a call made by executeRequest, the Template, the
\* paramName and the page value that executeRequest started from.
\* seq alternates from one call to the next, so that two equal calls in a row are
\* still two calls.
NoCall ==
  [seq |-> 0, api |-> "none", caller |-> "none", args |-> <<>>, viaProxy |-> FALSE,
   native |-> <<>>, returned |-> Null, promise |-> Null,
   captured |-> FALSE, threw |-> FALSE, writes |-> 0, replaced |-> "nothing",
   template |-> Null, paramName |-> <<>>, value |-> NaN]

\* What a call found in the slot: nothing, or a Template with or without a body.
SlotKind(slot) ==
  IF slot = Null THEN "nothing"
  ELSE IF Has(slot.config, "body") THEN "template with body"
  ELSE "template without body"

\* The record of a call with arguments args through interception point api, given
\* what its handler did (o) and the promise the native function returns.
CallRecord(api, caller, args, viaProxy, o, returned, promise) ==
  [NoCall EXCEPT !.seq = 1 - lastCall.seq,
                 !.api = api, !.caller = caller, !.args = args, !.viaProxy = viaProxy,
                 !.native = o.native, !.returned = returned, !.promise = promise,
                 !.captured = o.captured, !.threw = o.threw,
                 !.writes = IF Has(o, "writes") THEN o.writes
                            ELSE IF o.captured THEN 1 ELSE 0,
                 !.replaced = SlotKind(firstCapture)]

IdleRun ==
  [pc |-> "idle", startValue |-> Num(0), totalPages |-> Num(0), pageSize |-> Num(0),
   i |-> 0, result |-> <<>>, inflight |-> Null,
   delays |-> 0, attempts |-> <<>>, outcomes |-> <<>>, exports |-> <<>>,
   reported |-> "none"]

Init ==
  /\ config = defaultConfig
  /\ firstCapture = Null
  /\ windowFetch = "native"
  /\ xhr = EmptyObject
  /\ aliased = FALSE
  /\ lastCall = NoCall
  /\ run = [r \in 1..MaxRuns |-> IdleRun]

\* updateConfigFromPanel, lines 39-45
UpdateConfigFromPanel(filterText, paramText, pageSizeText, pathText) ==
  /\ config' = [filter |-> Trim(filterText),
                paramName |-> Trim(paramText),
                pageSize |-> PageSizeFromPanel(pageSizeText),
                jsonPath |-> Trim(pathText)]
  /\ UNCHANGED <<firstCapture, windowFetch, xhr, aliased, lastCall, run>>

\* Mutant: the Proxy wraps whatever window.fetch is at the time.
MonitorTargetCurrent(wf) == wf

\* Line 49: the target of the new Proxy is nativeFetch, whatever window.fetch is.
MonitorTarget(wf) == "native"

\* new Proxy(target, handler)
ProxyOver(target) == IF target = "native" THEN "proxy" ELSE "nested"

\* monitorGQL, lines 48-93: window.fetch becomes a new Proxy of nativeFetch.
MonitorGQL ==
  /\ windowFetch' = ProxyOver(MonitorTarget(windowFetch))
  /\ UNCHANGED <<config, firstCapture, xhr, aliased, lastCall, run>>

\* disableMonitoring, lines 96-104: the reload discards the document and every
\* object of the script; the script is injected anew into the next document.
DisableMonitoring ==
  /\ config' = defaultConfig
  /\ firstCapture' = Null
  /\ windowFetch' = "native"
  /\ xhr' = EmptyObject
  /\ aliased' = FALSE
  /\ lastCall' = NoCall
  /\ run' = [r \in 1..MaxRuns |-> IdleRun]

\* clearCapture, lines 107-114
ClearCapture ==
  /\ firstCapture' = Null
  /\ aliased' = FALSE
  /\ UNCHANGED <<config, windowFetch, xhr, lastCall, run>>

----------------------------------------------------------------------------
(* Network calls made by the page.                                         *)

\* The page calls window.fetch(...args).
PageFetch(args) ==
  LET w == WindowFetch(args, windowFetch, config, firstCapture, NativePromise(args))
  IN /\ firstCapture' = w.slot
     /\ aliased' = (aliased /\ ~w.captured)
     /\ lastCall' = CallRecord("fetch", "page", args, windowFetch # "native", w,
                                w.returned, NativePromise(args))
     /\ UNCHANGED <<config, windowFetch, xhr, run>>

\* The page creates another XMLHttpRequest and works with it from now on.
XhrNew ==
  /\ xhr # EmptyObject
  /\ xhr' = EmptyObject
  /\ aliased' = FALSE
  /\ UNCHANGED <<config, firstCapture, windowFetch, lastCall, run>>

\* The page calls xhr.open(...openArgs).
XhrOpen(openArgs) ==
  LET o == XhrOpenOverride(xhr, openArgs)
  IN /\ xhr' = o.xhr
     /\ aliased' = FALSE          \* line 204 gives the instance a new headers object
     /\ lastCall' = CallRecord("open", "page", openArgs, TRUE, o, Null, Null)
     /\ UNCHANGED <<config, firstCapture, windowFetch, run>>

\* The page calls xhr.setRequestHeader(...hdrArgs).
XhrSetRequestHeader(hdrArgs) ==
  LET o == XhrSetRequestHeaderOverride(xhr, hdrArgs)
  IN /\ xhr' = o.xhr
     /\ firstCapture' =
          IF aliased
          THEN [firstCapture EXCEPT !.config.headers = o.xhr._xhrHeaders]
          ELSE firstCapture
     /\ lastCall' = CallRecord("setRequestHeader", "page", hdrArgs, TRUE, o, Null, Null)
     /\ UNCHANGED <<config, windowFetch, aliased, run>>

\* The page calls xhr.send(...sendArgs).
XhrSend(sendArgs) ==
  LET o == XhrSendOverride(xhr, sendArgs, config, firstCapture)
  IN /\ firstCapture' = o.slot
     /\ aliased' = IF o.captured THEN Has(xhr, "_xhrHeaders") ELSE aliased
     /\ lastCall' = CallRecord("send", "page", sendArgs, TRUE, o, Null, Null)
     /\ UNCHANGED <<config, windowFetch, xhr, run>>

----------------------------------------------------------------------------
(* collectAndDownload.  An activation is suspended only in `await sleep` and *)
(* in the awaits of executeRequest; what runs between two suspensions is one *)
(* step.                                                                     *)

RejectedResponse == [kind |-> "reject"]      \* fetch rejects
NonJsonResponse == [kind |-> "nonjson"]      \* response.json() rejects
JsonResponse(doc) == [kind |-> "json", data |-> doc]

\* What lines 171-172 give for a response: the extracted value, undefined, or an
\* exception (of executeRequest or of getValueByPath) that line 179 catches.
PageExtraction(resp, path) ==
  IF resp.kind = "json" THEN getValueByPath(resp.data, path) ELSE Thrown

\* Mutant: a page that gave nothing leaves a null in the aggregate.
CollectedWithPlaceholder(result, extraction) ==
  IF extraction.kind = "value" THEN Append(result, extraction.value)
  ELSE Append(result, JNull)

\* Lines 173-178: only a defined value is pushed.
Collected(result, extraction) ==
  IF extraction.kind = "value" THEN Append(result, extraction.value) ELSE result

\* Mutant: the start value is left out of the page value.
PageValueFromZero(rs) == JsMul(Num(rs.i), rs.pageSize)

\* Mutant: the page size is read from the configuration for every page.
PageValueLivePageSize(rs) == JsAdd(rs.startValue, JsMul(Num(rs.i), config.pageSize))

\* Line 168
PageValue(rs) == JsAdd(rs.startValue, JsMul(Num(rs.i), rs.pageSize))

\* Mutant: the aggregate is downloaded without the test of line 183.
FinishAlwaysExports(rs) ==
  [rs EXCEPT !.pc = "done", !.reported = "complete",
             !.exports = Append(@, [filename |-> "data.json", data |-> rs.result,
                                    at |-> rs.i])]

\* Lines 183-188: after the loop.
Finish(rs) ==
  IF Len(rs.result) > 0
  THEN [rs EXCEPT !.pc = "done", !.reported = "complete",
                  !.exports = Append(@, [filename |-> "data.json", data |-> rs.result,
                                         at |-> rs.i])]
  ELSE [rs EXCEPT !.pc = "done", !.reported = "No data collected"]

\* Mutant: without the catch of line 179 a failed page ends the run on the spot.
LoopTestAbortsOnFailure(rs) ==
  IF rs.outcomes # <<>> /\ rs.outcomes[Len(rs.outcomes)].extraction.kind = "throw"
  THEN [rs EXCEPT !.pc = "aborted"]
  ELSE IF JsLess(Num(rs.i), rs.totalPages) THEN [rs EXCEPT !.pc = "sleeping"]
  ELSE Finish(rs)

\* The loop test of line 167 at an index past the first: the next iteration starts
\* with the sleep of line 170.
LoopTest(rs) ==
  IF JsLess(Num(rs.i), rs.totalPages) THEN [rs EXCEPT !.pc = "sleeping"] ELSE Finish(rs)

\* Mutant: a replay that found no Template ends the run with what it has.
PageDoneStopsOnNoCapture(rs, extraction) ==
  LET after == [rs EXCEPT !.result = Collected(@, extraction),
                          !.outcomes = Append(@, [i |-> rs.i, extraction |-> extraction]),
                          !.inflight = Null,
                          !.i = @ + 1]
  IN IF extraction = Thrown /\ rs.inflight = Null THEN Finish(after) ELSE LoopTest(after)

\* The end of iteration rs.i with the given extraction, then i++ and the loop test.
PageDone(rs, extraction) ==
  LoopTest([rs EXCEPT !.result = Collected(@, extraction),
                      !.outcomes = Append(@, [i |-> rs.i, extraction |-> extraction]),
                      !.inflight = Null,
                      !.i = @ + 1])

Attempted(rs, issued) ==
  [rs EXCEPT !.attempts = Append(@, [i |-> rs.i, value |-> PageValue(rs),
                                     delays |-> rs.delays, issued |-> issued]),
             !.delays = 0]

\* Mutant: collectAndDownload without the test of line 160.
CollectGuardMissing(slot) == FALSE

\* !this.firstCapture, line 160
NoCaptureAtCollect(slot) == slot = Null

\* !this.firstCapture, line 118
NoCaptureAtReplay(slot) == slot = Null

\* executeRequest(newValue) up to its first await, for activation r in state rs.
ExecuteRequest(r, rs) ==
  IF NoCaptureAtReplay(firstCapture)
  THEN \* line 119 throws, line 179 catches
       /\ run' = [run EXCEPT ![r] = PageDone(Attempted(rs, FALSE), Thrown)]
       /\ UNCHANGED <<config, firstCapture, windowFetch, xhr, aliased, lastCall>>
  ELSE LET req == BuildRequest(PageValue(rs), firstCapture, config)
           args == <<StringResource(req.url), req.init>>
           w == WindowFetch(args, windowFetch, config, firstCapture, NativePromise(args))
       IN /\ firstCapture' = w.slot
          /\ aliased' = (aliased /\ ~w.captured)
          /\ lastCall' = [CallRecord("fetch", "replay", args, windowFetch # "native",
                                     w, w.returned, NativePromise(args))
                            EXCEPT !.template = firstCapture,
                                   !.paramName = config.paramName,
                                   !.value = PageValue(rs)]
          /\ run' = [run EXCEPT ![r] =
                       [Attempted(rs, TRUE) EXCEPT !.pc = "awaiting", !.inflight = req]]
          /\ UNCHANGED <<config, windowFetch, xhr>>

\* The click handler of download-btn, lines 406-410, and collectAndDownload up to
\* its first suspension.
DownloadBtnClick(r, startText, countText) ==
  /\ run[r].pc = "idle"
  /\ \A q \in 1..(r - 1) : run[q].pc # "idle"
  /\ LET rs == [IdleRun EXCEPT !.startValue = ParseInt(startText),
                               !.totalPages = ParseInt(countText),
                               !.pageSize = config.pageSize]
     IN IF NoCaptureAtCollect(firstCapture)
        THEN /\ run' = [run EXCEPT ![r] = [rs EXCEPT !.pc = "done",
                                              !.pageSize = Num(0),
                                              !.reported = "No request captured"]]
             /\ UNCHANGED <<config, firstCapture, windowFetch, xhr, aliased, lastCall>>
        ELSE IF JsLess(Num(0), rs.totalPages)
        THEN ExecuteRequest(r, rs)
        ELSE /\ run' = [run EXCEPT ![r] = Finish(rs)]
             /\ UNCHANGED <<config, firstCapture, windowFetch, xhr, aliased, lastCall>>

\* The timer of sleep(1000) fires: line 170 resumes and line 171 calls executeRequest.
TimerFires(r) ==
  /\ run[r].pc = "sleeping"
  /\ ExecuteRequest(r, [run[r] EXCEPT !.delays = @ + 1])

\* The response of the request in flight arrives: lines 135, 172-181, then the loop.
ResponseArrives(r, resp) ==
  /\ run[r].pc = "awaiting"
  /\ run' = [run EXCEPT ![r] = PageDone(run[r], PageExtraction(resp, config.jsonPath))]
  /\ UNCHANGED <<config, firstCapture, windowFetch, xhr, aliased, lastCall>>

----------------------------------------------------------------------------
(* The inputs explored.                                                    *)

Url(abs, path, query) == [abs |-> abs, path |-> path, query |-> query]
Pair(name, value) == <<<<name>>, <<value>>>>

UrlPaged == Url(TRUE, <<DefaultFilterText>>, <<Pair("page", "1")>>)
UrlPlain == Url(TRUE, <<DefaultFilterText, "/v2">>, <<Pair("q", "x")>>)
UrlUpper == Url(TRUE, <<"OPENDATA.RDW.NL/API/CATALOG/V1">>, <<>>)
UrlRelative == Url(FALSE, <<"/proxy/", DefaultFilterText>>, <<Pair("page", "1")>>)

InitPost ==
  [method |-> "POST",
   headers |-> PlainHeaders([n \in {"accept"} |-> "json"]),
   body |-> JsonBody("q1", FALSE)]
InitHeadersInstance ==
  [headers |-> HeadersInstance([n \in {"x-token"} |-> "t"]),
   mode |-> "no-cors", credentials |-> "include"]
InitText == [method |-> "PUT", body |-> TextBody("raw")]

\* fetch(url), fetch(url, init), fetch(request, init), fetch(url, null),
\* fetch({}), fetch(null, init)
FetchArgs ==
  { <<StringResource(UrlPaged)>>,
    <<StringResource(UrlPaged), InitPost>>,
    <<StringResource(UrlRelative), InitHeadersInstance>>,
    <<StringResource(UrlUpper), InitPost>>,
    <<[kind |-> "request", url |-> UrlPlain], InitText>>,
    <<StringResource(UrlPaged), Null>>,
    <<[kind |-> "object"]>>,
    <<[kind |-> "null"], InitPost>> }

\* open(method, url) with a string, a URL object and null
XhrOpenArgs ==
  { <<"POST", StringResource(UrlPaged)>>,
    <<"", StringResource(UrlRelative)>>,
    <<"GET", [kind |-> "urlobj", url |-> UrlPaged]>>,
    <<"GET", [kind |-> "null"]>> }
XhrHeaderArgs == {<<"accept", "json">>, <<"x-token", "t">>}
XhrSendArgs == {<<>>, <<JsonBody("q2", FALSE)>>, <<TextBody("")>>}

FilterTexts == {<<>>, <<" ">>, <<DefaultFilterText>>, <<"/proxy/", DefaultFilterText>>}
ParamTexts == {<<"page">>, <<" ", "offset">>}
PageSizeTexts == {"", "0", "-5", "10"}
PathTexts == {<<"data", ".", "recipeSearchV2", ".", "result">>, <<"data">>}

StartTexts == {"0", "3", ""}
CountTexts == {ToString(n) : n \in 0..MaxPages} \cup {""}

\* The server's answer to a request carries the page it was asked for: the value of
\* the last query parameter of the requested URL.
EchoLabel(url) ==
  IF url.query = <<>> THEN "rows" ELSE url.query[Len(url.query)][2][1]

EchoDoc(url) ==
  JObject([k \in {"data"} |->
    JObject([j \in {"recipeSearchV2"} |->
      JObject([h \in {"result"} |-> JString(EchoLabel(url))])])])

ResponsesTo(req) ==
  { RejectedResponse,
    NonJsonResponse,
    JsonResponse(EchoDoc(req.url)),
    JsonResponse(JObject([k \in {"data"} |-> JString("none")])),
    JsonResponse(JObject([k \in {"data"} |-> JObject([j \in {} |-> JNull])])) }

\* The answers the request of activation r may get while it is in flight.
PendingResponses(r) ==
  IF run[r].pc = "awaiting" THEN ResponsesTo(run[r].inflight) ELSE {}

Next ==
  \/ \E f \in FilterTexts, p \in ParamTexts, s \in PageSizeTexts, j \in PathTexts :
       UpdateConfigFromPanel(f, p, s, j)
  \/ MonitorGQL
  \/ DisableMonitoring
  \/ ClearCapture
  \/ \E args \in FetchArgs : PageFetch(args)
  \/ XhrNew
  \/ \E openArgs \in XhrOpenArgs : XhrOpen(openArgs)
  \/ \E hdrArgs \in XhrHeaderArgs : XhrSetRequestHeader(hdrArgs)
  \/ \E sendArgs \in XhrSendArgs : XhrSend(sendArgs)
  \/ \E r \in 1..MaxRuns, st \in StartTexts, ct \in CountTexts : DownloadBtnClick(r, st, ct)
  \/ \E r \in 1..MaxRuns : TimerFires(r)
  \/ \E r \in 1..MaxRuns : \E resp \in PendingResponses(r) : ResponseArrives(r, resp)

Spec == Init /\ [][Next]_vars

----------------------------------------------------------------------------
(* The fetch path: every kind of argument list and filter, and a one-page   *)
(* collect so that executeRequest calls window.fetch too.                   *)

NextFetch ==
  \/ \E f \in FilterTexts : UpdateConfigFromPanel(f, <<"page">>, "", DefaultPathText)
  \/ MonitorGQL
  \/ DisableMonitoring
  \/ ClearCapture
  \/ \E args \in FetchArgs : PageFetch(args)
  \/ DownloadBtnClick(1, "0", "1")
  \/ ResponseArrives(1, RejectedResponse)

SpecFetch == Init /\ [][NextFetch]_vars

\* C1: a call through the wrapped fetch invokes the native fetch exactly once, with
\* the caller's own argument list, and hands the native promise back to the caller,
\* whether the capture code matched, did not match or threw.
C1_FetchPassesThrough ==
  (lastCall.api = "fetch" /\ lastCall.viaProxy) =>
     /\ lastCall.native = <<lastCall.args>>
     /\ lastCall.returned = lastCall.promise

\* A wrapped call whose first argument is an object without a url: the capture code
\* threw and the native fetch was still called.
C1_Witness ==
  /\ lastCall.api = "fetch"
  /\ lastCall.viaProxy
  /\ lastCall.threw
  /\ lastCall.args[1].kind = "object"
  /\ Len(lastCall.native) = 1

----------------------------------------------------------------------------
(* The XHR path: every kind of open target, header, body and filter.       *)

NextXhr ==
  \/ \E f \in FilterTexts : UpdateConfigFromPanel(f, <<"page">>, "", DefaultPathText)
  \/ ClearCapture
  \/ XhrNew
  \/ \E openArgs \in XhrOpenArgs : XhrOpen(openArgs)
  \/ \E hdrArgs \in XhrHeaderArgs : XhrSetRequestHeader(hdrArgs)
  \/ \E sendArgs \in XhrSendArgs : XhrSend(sendArgs)

SpecXhr == Init /\ [][NextXhr]_vars

\* C2: every open, setRequestHeader and send invokes the original method exactly
\* once with the original arguments, whatever the target URL, body and filter.
C2_XhrPassesThrough ==
  (lastCall.api \in {"open", "setRequestHeader", "send"}) =>
     lastCall.native = <<lastCall.args>>

----------------------------------------------------------------------------
(* Both paths together.                                                    *)

NextIntercept ==
  \/ \E f \in {<<" ">>, <<DefaultFilterText>>, <<"/proxy/", DefaultFilterText>>} :
       UpdateConfigFromPanel(f, <<"page">>, "", DefaultPathText)
  \/ MonitorGQL
  \/ DisableMonitoring
  \/ ClearCapture
  \/ \E args \in { <<StringResource(UrlPaged)>>,
                   <<StringResource(UrlPaged), InitPost>>,
                   <<StringResource(UrlUpper), InitPost>>,
                   <<StringResource(UrlPaged), Null>>,
                   <<[kind |-> "request", url |-> UrlPlain], InitText>>,
                   <<[kind |-> "object"]>> } : PageFetch(args)
  \/ XhrNew
  \/ \E openArgs \in { <<"POST", StringResource(UrlPaged)>>,
                       <<"", StringResource(UrlRelative)>>,
                       <<"GET", [kind |-> "urlobj", url |-> UrlPaged]>> } : XhrOpen(openArgs)
  \/ XhrSetRequestHeader(<<"accept", "json">>)
  \/ \E sendArgs \in {<<>>, <<JsonBody("q2", FALSE)>>} : XhrSend(sendArgs)

SpecIntercept == Init /\ [][NextIntercept]_vars

\* A step in which a call went through an interception point.
Called == lastCall'.seq # lastCall.seq

CallInit(call) ==
  IF Len(call.args) >= 2 /\ call.args[2] # Undefined THEN call.args[2] ELSE EmptyObject

CallHasBody(call, x) ==
  IF call.api = "fetch"
  THEN Has(CallInit(call), "body") /\ BodyTruthy(CallInit(call).body)
  ELSE Len(call.args) >= 1 /\ BodyTruthy(call.args[1])

\* The Template that normalising the call alone gives (x: the XHR instance sent).
NormalizationOf(call, x) ==
  IF call.api = "fetch"
  THEN [url |-> call.args[1].url, config |-> FetchCleanConfig(CallInit(call))]
  ELSE [url |-> x._xhrUrl.url, config |-> XhrCleanConfig(x, call.args)]

\* C3: a capture replaces the slot: right after any capturing call, fetch or XHR,
\* the stored Template is the normalisation of that call alone, whatever was stored
\* before; it has a body key exactly when that call had a body.
C3_CaptureReplaces ==
  [][(Called /\ lastCall'.captured) =>
       /\ firstCapture' = NormalizationOf(lastCall', xhr')
       /\ Has(firstCapture'.config, "body") <=> CallHasBody(lastCall', xhr')]_vars

\* A call without a body was captured over a Template that had one.
C3_Witness ==
  /\ lastCall.captured
  /\ lastCall.replaced = "template with body"
  /\ firstCapture # Null
  /\ ~Has(firstCapture.config, "body")

\* A call that the capture code observes: a fetch through the Proxy, or an XHR send.
Observed(call) == (call.api = "fetch" /\ call.viaProxy) \/ call.api = "send"

\* The call names a URL, as a string or as an object that has one.
HasUrl(call, x) ==
  IF call.api = "fetch"
  THEN call.args[1].kind \in {"string", "request"}
  ELSE Has(x, "_xhrUrl") /\ x._xhrUrl.kind \in {"string", "urlobj"}

CallUrl(call, x) == IF call.api = "fetch" THEN call.args[1].url ELSE x._xhrUrl.url

\* The capture code reads the URL as a string: the fetch path takes a string or the
\* url of a descriptor, the XHR path takes what open was given.
UrlIsString(call, x) ==
  IF call.api = "fetch"
  THEN call.args[1].kind \in {"string", "request"}
  ELSE Has(x, "_xhrUrl") /\ x._xhrUrl.kind = "string"

\* C10 as stated: an observed call is captured exactly when its URL contains
\* config.filter (so always with the empty filter), and otherwise leaves the slot.
C10_CapturedIffContains ==
  [][(Called /\ Observed(lastCall')) =>
       /\ lastCall'.captured <=>
            (HasUrl(lastCall', xhr') /\
               Includes(UrlText(CallUrl(lastCall', xhr')), config.filter))
       /\ ~lastCall'.captured => firstCapture' = firstCapture]_vars

\* C10 amended: an observed call is captured exactly when config.filter is not empty,
\* the URL is a string that contains it (case-sensitively) and, on the fetch path,
\* the init argument is not null; the Template then holds that URL; any other
\* observed call, so every call under the empty filter, leaves the slot unchanged.
C10_CapturedIffNonEmptyFilterContained ==
  [][(Called /\ Observed(lastCall')) =>
       /\ lastCall'.captured <=>
            /\ config.filter # <<>>
            /\ UrlIsString(lastCall', xhr')
            /\ Includes(UrlText(CallUrl(lastCall', xhr')), config.filter)
            /\ ~(lastCall'.api = "fetch" /\ CallInit(lastCall') = Null)
       /\ lastCall'.captured => firstCapture'.url = CallUrl(lastCall', xhr')
       /\ ~lastCall'.captured => firstCapture' = firstCapture]_vars

\* Under the empty filter a fetch of a string URL went through the Proxy and was not
\* captured.
C10_Witness ==
  /\ config.filter = <<>>
  /\ lastCall.api = "fetch"
  /\ lastCall.viaProxy
  /\ lastCall.args[1].kind = "string"
  /\ ~lastCall.captured

----------------------------------------------------------------------------
(* The collector and the replay engine, one activation at a time.          *)

NextCollect ==
  \/ \E c \in { <<"page", "">>, <<"offset", "10">> } :
       UpdateConfigFromPanel(<<DefaultFilterText>>, <<c[1]>>, c[2], DefaultPathText)
  \/ MonitorGQL
  \/ ClearCapture
  \/ PageFetch(<<StringResource(UrlPaged), InitPost>>)
  \/ \E st \in {"0", "3"}, ct \in CountTexts : DownloadBtnClick(1, st, ct)
  \/ TimerFires(1)
  \/ \E resp \in PendingResponses(1) : ResponseArrives(1, resp)

SpecCollect == Init /\ [][NextCollect]_vars

\* The activation got past line 160.
Started(rs) == rs.pc # "idle" /\ rs.reported # "No request captured"

\* The number of iterations of the loop of line 167.
Iterations(rs) == IF JsLess(Num(0), rs.totalPages) THEN rs.totalPages.v ELSE 0

\* C4: the Replay Engine is invoked for the indices 0, 1, 2, ... in this order, once
\* each, with page value startValue + i * pageSize; one delay elapses before every
\* invocation but the first, none before the first; a finished run has invoked it
\* totalPages times; start 0, three pages and page size 20 give 0, 20, 40.
C4_PagesInOrder ==
  LET rs == run[1]
  IN /\ \A k \in 1..Len(rs.attempts) :
          /\ rs.attempts[k].i = k - 1
          /\ rs.attempts[k].value = JsAdd(rs.startValue, JsMul(Num(k - 1), rs.pageSize))
          /\ rs.attempts[k].delays = IF k = 1 THEN 0 ELSE 1
     /\ Len(rs.attempts) <= Iterations(rs)
     /\ (rs.pc = "done" /\ Started(rs)) => Len(rs.attempts) = Iterations(rs)
     /\ (rs.pc = "done" /\ Started(rs) /\ rs.startValue = Num(0)
           /\ rs.totalPages = Num(3) /\ rs.pageSize = Num(20)) =>
          [k \in 1..3 |-> rs.attempts[k].value] = <<Num(0), Num(20), Num(40)>>

\* A finished run of three pages from start value 3 whose three requests were issued.
C4_Witness ==
  LET rs == run[1]
  IN /\ rs.pc = "done"
     /\ Len(rs.attempts) = 3
     /\ \A k \in 1..3 : rs.attempts[k].issued
     /\ rs.startValue = Num(3)
     /\ rs.attempts[3].value = Num(43)
     /\ rs.attempts[3].delays = 1

RECURSIVE DefinedValues(_)
DefinedValues(outcomes) ==
  IF outcomes = <<>> THEN <<>>
  ELSE (IF Head(outcomes).extraction.kind = "value"
        THEN <<Head(outcomes).extraction.value>> ELSE <<>>)
         \o DefinedValues(Tail(outcomes))

\* C5: whatever each page gave (an exception, undefined or a value), the aggregate is
\* the defined values in page order with nothing in place of the other pages; the
\* pages are processed in index order, and a finished run has processed all of them.
C5_FailuresAreSkipped ==
  LET rs == run[1]
  IN /\ rs.result = DefinedValues(rs.outcomes)
     /\ \A k \in 1..Len(rs.outcomes) : rs.outcomes[k].i = k - 1
     /\ (rs.pc = "done" /\ Started(rs)) => Len(rs.outcomes) = Iterations(rs)
     /\ \A k \in 1..Len(rs.exports) : rs.exports[k].data = DefinedValues(rs.outcomes)

\* Page 1 of 3 failed and the aggregate holds page 0, then page 2.
C5_Witness ==
  LET rs == run[1]
  IN /\ rs.pc = "done"
     /\ Len(rs.outcomes) = 3
     /\ rs.outcomes[2].extraction.kind = "throw"
     /\ rs.result = <<JString("0"), JString("40")>>
     /\ Len(rs.exports) = 1

\* C6: collectAndDownload invoked while the slot is empty ends at once: no replay
\* attempt, no request, no delay, no export, and slot and configuration as before.
C6_NoCaptureNoCollect ==
  [][(run[1].pc = "idle" /\ run'[1].pc # "idle" /\ firstCapture = Null) =>
       /\ run'[1].pc = "done"
       /\ run'[1].attempts = <<>>
       /\ run'[1].outcomes = <<>>
       /\ run'[1].exports = <<>>
       /\ run'[1].delays = 0
       /\ run'[1].inflight = Null
       /\ lastCall' = lastCall
       /\ firstCapture' = Null
       /\ config' = config]_vars

\* The command was invoked after the capture was cleared.
C6_Witness ==
  /\ run[1].pc = "done"
  /\ run[1].reported = "No request captured"
  /\ lastCall.captured
  /\ firstCapture = Null

\* C7: a run exports at most once, only when it is done and every page has been
\* processed, and exactly when the aggregate is not empty; a run of no page (a count
\* of 0 or NaN) and a run whose pages all gave nothing export nothing.
C7_ExportOnceIffNonEmpty ==
  LET rs == run[1]
  IN /\ Len(rs.exports) <= 1
     /\ rs.pc # "done" => rs.exports = <<>>
     /\ rs.pc = "done" => (Len(rs.exports) = 1 <=> Len(rs.result) > 0)
     /\ \A k \in 1..Len(rs.exports) :
          /\ rs.exports[k].at = Iterations(rs)
          /\ Len(rs.outcomes) = Iterations(rs)
          /\ rs.exports[k].data = rs.result
     /\ (\A k \in 1..Len(rs.outcomes) : rs.outcomes[k].extraction.kind # "value") =>
          rs.exports = <<>>

\* A run of two pages that both gave nothing is done and has exported nothing.
C7_Witness ==
  LET rs == run[1]
  IN /\ rs.pc = "done"
     /\ Len(rs.outcomes) = 2
     /\ rs.result = <<>>
     /\ rs.exports = <<>>
     /\ rs.reported = "No data collected"

----------------------------------------------------------------------------
\* Templates of every shape, replayed one or two pages at a time.
NextReplay ==
  \/ \E c \in { <<"page", "">>, <<"offset", "10">> } :
       UpdateConfigFromPanel(<<DefaultFilterText>>, <<c[1]>>, c[2], DefaultPathText)
  \/ MonitorGQL
  \/ ClearCapture
  \/ \E args \in { <<StringResource(UrlPaged), InitPost>>,
                   <<StringResource(UrlRelative), InitHeadersInstance>>,
                   <<StringResource(UrlPlain)>> } : PageFetch(args)
  \/ XhrOpen(<<"POST", StringResource(UrlPaged)>>)
  \/ XhrSend(<<JsonBody("q2", FALSE)>>)
  \/ \E ct \in {"1", "2"} : DownloadBtnClick(1, "3", ct)
  \/ TimerFires(1)
  \/ ResponseArrives(1, RejectedResponse)

SpecReplay == Init /\ [][NextReplay]_vars

\* The query parameters with the given name, and the others.
Named(q, name) == SelectSeq(q, LAMBDA pair : pair[1] = name)
Others(q, name) == SelectSeq(q, LAMBDA pair : pair[1] # name)

\* C8: a replay issues exactly one request; the URL of a Template that parses has
\* config.paramName set to the page value and its other parts unchanged, the URL of
\* one that does not parse is requested as it is; method, headers and body are those
\* of the stored config.
C8_ReplayRequest ==
  lastCall.caller = "replay" =>
    LET t == lastCall.template
        u == lastCall.args[1].url
        init == lastCall.args[2]
    IN /\ lastCall.native = <<lastCall.args>>
       /\ lastCall.args[1].kind = "string"
       /\ UrlParses(t.url) =>
            /\ u.abs = t.url.abs
            /\ u.path = t.url.path
            /\ Named(u.query, lastCall.paramName)
                 = <<<<lastCall.paramName, <<NumToString(lastCall.value)>>>>>>
            /\ Others(u.query, lastCall.paramName) = Others(t.url.query, lastCall.paramName)
       /\ ~UrlParses(t.url) => u = t.url
       /\ init.method = t.config.method
       /\ init.headers = t.config.headers
       /\ Has(init, "body") <=> Has(t.config, "body")
       /\ Has(init, "body") => init.body = t.config.body

\* C9: a replay leaves the stored Template as it was, in every monitoring state.
C9_ReplayKeepsTemplate ==
  [][(Called /\ lastCall'.caller = "replay") => firstCapture' = firstCapture]_vars

----------------------------------------------------------------------------
(* The shape of the stored Template.                                       *)

CanonicalKeys == {"headers", "method", "mode", "credentials"}

\* C11: a stored Template's config has headers, method, mode and credentials, and
\* nothing else but a body; right after a capture the method, mode and credentials
\* the call did not give are GET, cors and same-origin, and the body key is there
\* exactly when the call had a body.
C11_CanonicalConfig ==
  firstCapture # Null =>
    /\ CanonicalKeys \subseteq DOMAIN firstCapture.config
    /\ DOMAIN firstCapture.config \subseteq CanonicalKeys \cup {"body"}
    /\ lastCall.captured =>
         /\ Has(firstCapture.config, "body") <=> CallHasBody(lastCall, xhr)
         /\ (lastCall.api = "fetch" /\ CallInit(lastCall) = EmptyObject) =>
              /\ firstCapture.config.method = "GET"
              /\ firstCapture.config.mode = "cors"
              /\ firstCapture.config.credentials = "same-origin"

----------------------------------------------------------------------------
(* The configuration panel: every kind of entry in its four inputs.        *)

PageSizeEntries == {"", "abc", "0", "-5", "-1", "1.5", "10"}

NextConfig ==
  \/ \E f \in FilterTexts, p \in ParamTexts, s \in PageSizeEntries, j \in PathTexts :
       UpdateConfigFromPanel(f, p, s, j)
  \/ MonitorGQL
  \/ DisableMonitoring
  \/ ClearCapture
  \/ PageFetch(<<StringResource(UrlPaged), InitPost>>)

SpecConfig == Init /\ [][NextConfig]_vars

\* C12: config.pageSize is a number (not NaN), an integer, and at least 1 in every
\* reachable state, whatever was entered in the panel.
C12_PageSizePositive ==
  /\ ~config.pageSize.nan
  /\ config.pageSize.v \in Int
  /\ config.pageSize.v >= 1

----------------------------------------------------------------------------
(* The path extractor on the documents a replay may receive.               *)

Nested(v) == JObject([k \in {"data"} |-> v])

\* Documents with the path present, cut short by an object, and cut short by each
\* kind of scalar; the last is a top-level scalar.
ExtractDocs ==
  { Nested(JObject([k \in {"result"} |-> JString("rows")])),
    Nested(JObject([k \in {} |-> JNull])),
    Nested(JString("text")),
    Nested(JString("")),
    Nested(JNumber(5)),
    Nested(JNumber(0)),
    Nested(JBool(TRUE)),
    Nested(JBool(FALSE)),
    Nested(JNull),
    JNumber(7) }

ExtractPaths ==
  { <<"data", ".", "result">>, <<"data">>, <<"data", ".", "constructor">>, <<>> }

NextExtract ==
  \/ \E j \in ExtractPaths :
       UpdateConfigFromPanel(<<DefaultFilterText>>, <<"page">>, "", j)
  \/ MonitorGQL
  \/ PageFetch(<<StringResource(UrlPaged)>>)
  \/ DownloadBtnClick(1, "0", "2")
  \/ TimerFires(1)
  \/ \E doc \in ExtractDocs : ResponseArrives(1, JsonResponse(doc))

SpecExtract == Init /\ [][NextExtract]_vars

\* The value below `value` along the keys `parts` when each key is an own key of
\* the container reached so far, and undefined otherwise.
RECURSIVE NestedValue(_, _)
NestedValue(value, parts) ==
  IF parts = <<>> THEN Found(value)
  ELSE IF value.t = "object" /\ Head(parts) \in DOMAIN value.fields
       THEN NestedValue(value.fields[Head(parts)], Tail(parts))
  ELSE NotFound

\* The step in which the response document doc arrives for activation 1.
Extracts(doc) ==
  /\ run[1].pc = "awaiting"
  /\ run' = [run EXCEPT ![1] =
               PageDone(run[1], PageExtraction(JsonResponse(doc), config.jsonPath))]

\* C13: for every document and path, the extractor gives the nested value when
\* every segment is a key of its parent container and undefined otherwise, without
\* raising, also when the path continues below a scalar.
C13_ExtractTotal ==
  [][\A doc \in ExtractDocs :
       Extracts(doc) =>
         LET o == run'[1].outcomes
         IN o[Len(o)].extraction = NestedValue(doc, SplitDots(config.jsonPath))]_vars

----------------------------------------------------------------------------
(* The download button clicked again while a run is suspended.             *)

NextOverlap ==
  \/ PageFetch(<<StringResource(UrlPaged)>>)
  \/ MonitorGQL
  \/ ClearCapture
  \/ \E r \in 1..MaxRuns, ct \in {"1", "2"} : DownloadBtnClick(r, "0", ct)
  \/ \E r \in 1..MaxRuns : TimerFires(r)
  \/ \E r \in 1..MaxRuns :
       \E resp \in {RejectedResponse, JsonResponse(EchoDoc(UrlPaged))} :
         ResponseArrives(r, resp)

SpecOverlap == Init /\ [][NextOverlap]_vars

\* The activations whose replay request has been issued and not answered yet.
InFlight == {r \in 1..MaxRuns : run[r].pc = "awaiting"}

\* C14: in every reachable state at most one replay request is in flight.
C14_OneInFlight == Cardinality(InFlight) <= 1

----------------------------------------------------------------------------
(* A run to its end, with every timer firing and every response arriving,  *)
(* while the page goes on capturing, clearing and reconfiguring.           *)

LiveResponses == {RejectedResponse, JsonResponse(EchoDoc(UrlPaged))}

NextLive ==
  \/ UpdateConfigFromPanel(<<DefaultFilterText>>, <<"offset">>, "10", DefaultPathText)
  \/ MonitorGQL
  \/ ClearCapture
  \/ PageFetch(<<StringResource(UrlPaged), InitPost>>)
  \/ \E ct \in {"0", "2"} : DownloadBtnClick(1, "0", ct)
  \/ TimerFires(1)
  \/ \E resp \in LiveResponses : ResponseArrives(1, resp)

\* setTimeout fires its callback, and the network settles every fetch.
Fairness ==
  /\ WF_vars(TimerFires(1))
  /\ WF_vars(\E resp \in LiveResponses : ResponseArrives(1, resp))

SpecLive == Init /\ [][NextLive]_vars /\ Fairness

\* The run is at its final step with every index processed once, in order.
RanToCompletion(rs) ==
  /\ rs.pc = "done"
  /\ rs.reported \in {"complete", "No data collected"}
  /\ Len(rs.outcomes) = Iterations(rs)
  /\ \A k \in 1..Len(rs.outcomes) : rs.outcomes[k].i = k - 1

\* C15: a run that got past the no-capture test eventually reaches its final step
\* (export or the empty-aggregate report) having processed each index once,
\* whatever captures, clears and configuration updates interleave with it.
C15_RunsToCompletion == Started(run[1]) ~> RanToCompletion(run[1])

\* A run of two pages finished although the capture was cleared on the way.
C15_Witness ==
  /\ RanToCompletion(run[1])
  /\ Len(run[1].outcomes) = 2
  /\ run[1].attempts[1].issued
  /\ ~run[1].attempts[2].issued

----------------------------------------------------------------------------
(* What a replay reads and what it shares.                                 *)

\* Line 58 stores config.headers itself, not a copy, when the call gave one: the
\* Template a captured fetch leaves in the slot then holds the caller's own
\* headers object.
SlotSharesHeaders(call) ==
  /\ call.api = "fetch"
  /\ call.captured
  /\ CallInit(call) # Null
  /\ Has(CallInit(call), "headers")

\* A step in which activation 1 issues a replay request.
Replays == Called /\ lastCall'.caller = "replay"

\* C16: the request a replay issues is built, URL and config, from the Template in
\* the slot when the replay starts; while the replay awaits its response no step
\* changes that request; and the replay's copy of the config shares no object with
\* the stored Template.
C16_ReplaySnapshot ==
  [][/\ Replays =>
          LET req == BuildRequest(lastCall'.value, firstCapture, config)
          IN /\ run'[1].inflight = req
             /\ lastCall'.args = <<StringResource(req.url), req.init>>
             /\ lastCall'.template = firstCapture
             /\ ~SlotSharesHeaders(lastCall')
     /\ (run[1].pc = "awaiting" /\ run'[1].pc = "awaiting") =>
          run'[1].inflight = run[1].inflight]_vars

----------------------------------------------------------------------------
(* clearCapture while a run is suspended.                                  *)

\* Activation 1 resumes from its delay, or from the await of its response.
ResumesFromDelay == run[1].pc = "sleeping" /\ run'[1] # run[1]
ResumesFromAwait == run[1].pc = "awaiting" /\ run'[1] # run[1]

Last(seq) == seq[Len(seq)]

\* A replay that starts on an empty slot: no request, the page fails and is
\* skipped, and the run goes on to the next index or, after the last, to its end.
SkipsPage ==
  /\ lastCall' = lastCall
  /\ run'[1].inflight = Null
  /\ Len(run'[1].attempts) = Len(run[1].attempts) + 1
  /\ ~Last(run'[1].attempts).issued
  /\ Last(run'[1].attempts).i = run[1].i
  /\ Last(run'[1].outcomes) = [i |-> run[1].i, extraction |-> Thrown]
  /\ run'[1].result = run[1].result
  /\ run'[1].i = run[1].i + 1
  /\ run'[1].pc = IF run'[1].i < Iterations(run[1]) THEN "sleeping" ELSE "done"

\* The run ends having gone through every index, and exports its aggregate exactly
\* when there is one.
EndsWithAggregate ==
  (run'[1].pc = "done" /\ run[1].pc # "done") =>
     /\ Len(run'[1].outcomes) = Iterations(run[1])
     /\ run'[1].exports =
          IF run'[1].result = <<>> THEN <<>>
          ELSE <<[filename |-> "data.json", data |-> run'[1].result,
                  at |-> Iterations(run[1])]>>

\* C17 as stated: once the slot has been cleared under a suspended run, every step
\* of the run skips its page or, for the response of the request in flight, leaves
\* the aggregate as it was at the clear; the run ends with that aggregate.
C17_ClearedRunKeepsAggregate ==
  [][(firstCapture = Null /\ Started(run[1])) =>
       /\ ResumesFromDelay => SkipsPage
       /\ ResumesFromAwait =>
            /\ run'[1].result = run[1].result
            /\ run'[1].attempts = run[1].attempts
       /\ EndsWithAggregate]_vars

\* C17 amended: while the slot stays empty, every replay that starts is skipped
\* without a request and the run goes through all remaining indices; the page whose
\* request was in flight at the clear is still processed when its response arrives
\* and its value, if defined, joins the aggregate; the run ends with that aggregate.
C17_ClearedRunSkipsLaterPages ==
  [][(firstCapture = Null /\ Started(run[1])) =>
       /\ ResumesFromDelay => SkipsPage
       /\ ResumesFromAwait =>
            /\ run'[1].result =
                 Collected(run[1].result, Last(run'[1].outcomes).extraction)
            /\ Last(run'[1].outcomes).i = run[1].i
            /\ run'[1].attempts = run[1].attempts
            /\ run'[1].i = run[1].i + 1
       /\ EndsWithAggregate]_vars

\* A run of three pages whose capture was cleared after the first request: pages 1
\* and 2 were skipped without a request and the export holds page 0 alone.
C17_Witness ==
  LET rs == run[1]
  IN /\ rs.pc = "done"
     /\ firstCapture = Null
     /\ Len(rs.attempts) = 3
     /\ rs.attempts[1].issued
     /\ ~rs.attempts[2].issued
     /\ ~rs.attempts[3].issued
     /\ Len(rs.result) = 1
     /\ Len(rs.exports) = 1

----------------------------------------------------------------------------
(* The configuration changed while a run is suspended.                     *)

NextReconfig ==
  \/ \E c \in { <<"page", "", DefaultPathText>>,
                 <<"offset", "10", DefaultPathText>>,
                 <<"page", "", <<"data">>>> } :
       UpdateConfigFromPanel(<<DefaultFilterText>>, <<c[1]>>, c[2], c[3])
  \/ MonitorGQL
  \/ PageFetch(<<StringResource(UrlPaged), InitPost>>)
  \/ DownloadBtnClick(1, "0", "2")
  \/ TimerFires(1)
  \/ \E resp \in PendingResponses(1) : ResponseArrives(1, resp)

SpecReconfig == Init /\ [][NextReconfig]_vars

\* C18: a run keeps the pageSize it read when it started and computes every page
\* value with it, whatever the configuration becomes meanwhile; each replay names
\* the query parameter by the paramName configured when it starts, and each
\* response is read along the jsonPath configured when it arrives.
C18_PageSizeFixedOthersLive ==
  [][/\ (run[1].pc = "idle" /\ Started(run'[1])) => run'[1].pageSize = config.pageSize
     /\ Started(run[1]) => run'[1].pageSize = run[1].pageSize
     /\ Len(run'[1].attempts) > Len(run[1].attempts) =>
          Last(run'[1].attempts).value =
            JsAdd(run'[1].startValue,
                  JsMul(Num(Last(run'[1].attempts).i), run'[1].pageSize))
     /\ Replays =>
          /\ lastCall'.paramName = config.paramName
          /\ Named(lastCall'.args[1].url.query, config.paramName)
               = <<<<config.paramName, <<NumToString(lastCall'.value)>>>>>>
     /\ ResumesFromAwait =>
          \E resp \in PendingResponses(1) :
            Last(run'[1].outcomes).extraction = PageExtraction(resp, config.jsonPath)]_vars

\* Page 1 of a run started with page size 20 and parameter "page" is in flight
\* after the panel changed them to 10 and "offset": it asks for offset=20.
C18_Witness ==
  LET rs == run[1]
  IN /\ rs.pc = "awaiting"
     /\ rs.i = 1
     /\ rs.pageSize = Num(20)
     /\ config.pageSize = Num(10)
     /\ rs.attempts[1].issued
     /\ Named(rs.inflight.url.query, <<"offset">>) = <<<<<<"offset">>, <<"20">>>>>>

----------------------------------------------------------------------------
(* What switches each capture path on.                                     *)

\* window.fetch is the Proxy exactly from a monitorGQL() on, until the reload.
Monitoring == windowFetch # "native"

\* The send names a string URL that contains the non-empty filter.
XhrMatches(call, x) ==
  /\ call.api = "send"
  /\ config.filter # <<>>
  /\ UrlIsString(call, x)
  /\ Includes(UrlText(CallUrl(call, x)), config.filter)

\* C19: a fetch is captured only while monitoring is on, and then with one call of
\* the native fetch and one Template stored, however often monitorGQL was invoked;
\* without monitoring a fetch leaves the slot alone; a matching XHR send is
\* captured whether monitoring is on or not.
C19_CaptureGating ==
  [][Called =>
       /\ (lastCall'.api = "fetch" /\ lastCall'.captured) =>
            /\ Monitoring
            /\ firstCapture' = NormalizationOf(lastCall', xhr')
       /\ (lastCall'.api = "fetch" /\ ~Monitoring) => firstCapture' = firstCapture
       /\ lastCall'.api = "fetch" =>
            /\ lastCall'.native = <<lastCall'.args>>
            /\ lastCall'.writes = IF lastCall'.captured THEN 1 ELSE 0
       /\ XhrMatches(lastCall', xhr') =>
            /\ lastCall'.captured
            /\ firstCapture' = NormalizationOf(lastCall', xhr')]_vars

\* An XHR send was captured while window.fetch is still the native function.
C19_Witness ==
  /\ ~Monitoring
  /\ lastCall.api = "send"
  /\ lastCall.captured
  /\ firstCapture # Null
  /\ firstCapture.url = xhr._xhrUrl.url

====
